---- MODULE Spec2Model ----
(***************************************************************************)
(* Model of the ollama-docs content loader (src/src/ollama.ts):            *)
(* fetchDocsEntries, parseEntry, transformMarkdownLinks and the load       *)
(* callback that fans parseEntry out over the discovered entries with      *)
(* Promise.all and writes each validated record to the content store.      *)
(*                                                                         *)
(* JavaScript strings are sequences of one-character strings, so that      *)
(* startsWith / endsWith / includes / split / substring and the link       *)
(* regular expression are computed character by character.                 *)
(***************************************************************************)
EXTENDS Integers, Sequences, FiniteSets, TLC

VARIABLES
    listing,     \* the provider's answer to the directory-listing request
    store0,      \* content of the store when load() is called
    store,       \* context.store : id -> data
    loadState,   \* the promise returned by load(): idle/listing/fanout/resolved/rejected
    entries,     \* result of fetchDocsEntries (sequence of {selfUrl, downloadUrl})
    pc,          \* position of each entries.map callback
    metadataRes, \* parseEntry local `metadataRes`, per task that has received it
    res,         \* parseEntry local `res`, per task that has received it
    issued,      \* fetch() calls made by the tasks: <<task, "metadata"|"content">>
    parts,       \* link rewriter call: the constructs the document is written from
    md,          \* link rewriter call: the argument markdownContent
    out,         \* link rewriter call: the returned string (empty before the return)
    returned,    \* link rewriter call: TRUE once transformMarkdownLinks has returned
    out2,        \* second call, on the first call's result: the returned string
    returned2    \* second call: TRUE once it has returned

vars ==
    <<listing, store0, store, loadState, entries, pc, metadataRes, res, issued,
      parts, md, out, returned, out2, returned2>>

rewriterVars == <<parts, md, out, returned, out2, returned2>>

loaderVars ==
    <<listing, store0, store, loadState, entries, pc, metadataRes, res, issued>>

----------------------------------------------------------------------------
(* Bounds of the model *)

\* longest directory listing the provider returns
MaxListing == 2

\* most pieces (plain text, links, images) concatenated into a rewriter input
MaxPieces == 2

----------------------------------------------------------------------------
(* JavaScript string primitives *)

\* s.startsWith(p)
StartsWith(s, p) ==
    /\ Len(p) <= Len(s)
    /\ SubSeq(s, 1, Len(p)) = p

\* s.endsWith(p)
EndsWith(s, p) ==
    /\ Len(p) <= Len(s)
    /\ SubSeq(s, Len(s) - Len(p) + 1, Len(s)) = p

\* s.includes(p)
Includes(s, p) ==
    \E i \in 1..(Len(s) - Len(p) + 1) : SubSeq(s, i, i + Len(p) - 1) = p

\* s.substring(n) with 0 <= n
Substring(s, n) == IF n >= Len(s) THEN <<>> ELSE SubSeq(s, n + 1, Len(s))

\* s.indexOf(c, from) on 1-based positions; 0 when c does not occur at or after from
IndexFrom(s, c, from) ==
    IF \E i \in from..Len(s) : s[i] = c
    THEN CHOOSE i \in from..Len(s) : s[i] = c /\ \A j \in from..(i - 1) : s[j] # c
    ELSE 0

\* s.split(c) for a one-character separator: the sequence of pieces
RECURSIVE Split(_, _)
Split(s, c) ==
    LET i == IndexFrom(s, c, 1)
    IN IF i = 0 THEN <<s>>
       ELSE <<SubSeq(s, 1, i - 1)>> \o Split(Substring(s, i), c)

----------------------------------------------------------------------------
(* JSON values of the provider's responses *)

Undefined == [kind |-> "undefined", val |-> <<>>]
Null == [kind |-> "null", val |-> <<>>]
Str(s) == [kind |-> "string", val |-> s]

\* JavaScript truthiness of a JSON value that is undefined, null or a string
Truthy(v) == v.kind = "string" /\ v.val # <<>>

DotMd == <<".", "m", "d">>
ReadmeMd == <<"R", "E", "A", "D", "M", "E", ".", "m", "d">>

\* new URL(s) without a base succeeds only when s starts with a scheme
\* (letters followed by ':'); the model's URLs use the one-letter scheme "h:"
IsLetter(c) == c \in {"a", "b", "h", "m", "x", "R", "E", "A", "D", "M"}
UrlParses(s) ==
    LET i == IndexFrom(s, ":", 1)
    IN /\ i > 1
       /\ \A j \in 1..(i - 1) : IsLetter(s[j])
       /\ Len(s) > i

----------------------------------------------------------------------------
(* transformMarkdownLinks *)

DotSlash == <<".", "/">>
DotDotSlash == <<".", ".", "/">>
\* the prefix written as a relative path
DocsPrefix_Relative == <<".", "/", "d", "o", "c", "s", "/">>

DocsPrefix == <<"/", "d", "o", "c", "s", "/">>

\* One attempt of linkRegex = /\[([^\]]+)\]\(([^)]+)\)/ anchored at position i.
\* The text group cannot cross a ']' and the url group cannot cross a ')', so
\* the groups end at the first ']' and the first ')' and no backtracking helps.
\* close = position of ']', last = position of ')'; last = 0 when there is no match.
MatchAt(s, i) ==
    LET close == IF i <= Len(s) /\ s[i] = "[" THEN IndexFrom(s, "]", i + 1) ELSE 0
        open == close + 1
        last == IF close > i + 1 /\ open <= Len(s) /\ s[open] = "("
                THEN IndexFrom(s, ")", open + 1)
                ELSE 0
    IN [close |-> close, last |-> IF last > open + 1 THEN last ELSE 0]

\* leftmost position >= from where linkRegex matches; 0 when there is none
NextMatch(s, from) ==
    IF \E i \in from..Len(s) : MatchAt(s, i).last # 0
    THEN CHOOSE i \in from..Len(s) :
            /\ MatchAt(s, i).last # 0
            /\ \A j \in from..(i - 1) : MatchAt(s, j).last = 0
    ELSE 0

\* const [path, fragment] = url.split('#'): the first two pieces of the split
SplitPath(url) == Split(url, "#")[1]
SplitFragment(url) ==
    LET pieces == Split(url, "#")
    IN IF Len(pieces) >= 2 THEN Str(pieces[2]) ELSE Undefined

\* the second test written as an `else if`
CleanPath_ElseIf(path) ==
    IF StartsWith(path, DotSlash) THEN Substring(path, 2)
    ELSE IF StartsWith(path, DotDotSlash) THEN Substring(path, 3)
    ELSE path

\* lines 149-158: strip './' and then, if the rest starts with it, '../'
CleanPath(path) ==
    LET p1 == IF StartsWith(path, DotSlash) THEN Substring(path, 2) ELSE path
    IN IF StartsWith(p1, DotDotSlash) THEN Substring(p1, 3) ELSE p1

\* line 161
NewUrl(url) ==
    LET fragment == SplitFragment(url)
    IN DocsPrefix \o CleanPath(SplitPath(url))
         \o (IF Truthy(fragment) THEN <<"#">> \o fragment.val ELSE <<>>)

\* the test widened to every url that starts with '.' or '/'
IsRelative_OrRooted(url) ==
    StartsWith(url, <<".">>) \/ StartsWith(url, <<"/">>)

\* line 144
IsRelative(url) == StartsWith(url, DotSlash) \/ StartsWith(url, DotDotSlash)

\* the replace callback (match, text, url) => ...
Replacer(match, linkText, url) ==
    IF IsRelative(url)
    THEN <<"[">> \o linkText \o <<"]", "(">> \o NewUrl(url) \o <<")">>
    ELSE match

\* String.prototype.replace with a global regex, scanning from position from.
\* The next match i and its groups m are bound as the elements of one-element
\* sets, so that each is computed once per call.
RECURSIVE ReplaceFrom(_, _)
ReplaceFrom(s, from) ==
    LET Replaced(i, m) ==
            SubSeq(s, from, i - 1)
              \o Replacer(SubSeq(s, i, m.last),
                          SubSeq(s, i + 1, m.close - 1),
                          SubSeq(s, m.close + 2, m.last - 1))
              \o ReplaceFrom(s, m.last + 1)
        Scanned(i) ==
            IF i = 0 THEN Substring(s, from - 1)
            ELSE CHOOSE r \in {Replaced(i, m) : m \in {MatchAt(s, i)}} : TRUE
    IN CHOOSE r \in {Scanned(i) : i \in {NextMatch(s, from)}} : TRUE

transformMarkdownLinks(markdownContent) == ReplaceFrom(markdownContent, 1)

----------------------------------------------------------------------------
(* The provider: listing descriptors, metadata objects and raw texts *)

UrlM1 == <<"h", ":", "m", "1">>
UrlA == <<"h", ":", "a">> \o DotMd

\* values of a descriptor's `url`
SelfUrlValues ==
    { Undefined, Str(<<>>), Str(UrlM1), Str(<<"m", "3">>) }

\* values of a descriptor's `download_url` (null for a directory)
DownloadUrlValues ==
    { Null, Str(UrlA),
      Str(<<"h", ":">> \o ReadmeMd),
      Str(<<"h", ":">> \o ReadmeMd \o <<"/", "a">> \o DotMd),
      Str(<<"h", ":", "a", ".", "m">>),
      Str(<<"a">> \o DotMd) }

Descriptors == [url : SelfUrlValues, download_url : DownloadUrlValues]

RECURSIVE SeqsUpTo(_, _)
SeqsUpTo(S, n) ==
    IF n = 0 THEN {<<>>}
    ELSE LET shorter == SeqsUpTo(S, n - 1)
         IN shorter \cup {Append(q, x) : q \in {r \in shorter : Len(r) = n - 1}, x \in S}

\* the listing responses: HTTP status, whether the JSON body is an array, its items
ListingResponses ==
    [ok : {TRUE}, isArray : {TRUE}, items : SeqsUpTo(Descriptors, MaxListing)]
      \cup [ok : {TRUE}, isArray : {FALSE}, items : {<<>>}]
      \cup [ok : {FALSE}, isArray : {FALSE}, items : {<<>>}]
      \cup [ok : {FALSE}, isArray : {TRUE},
            items : {<<[url |-> Str(UrlM1), download_url |-> Str(UrlA)]>>}]

Key1 == "k1"
Key2 == "k2"
KeyStale == "k3"

\* a metadata object of the contents API; sizeKind is the JSON kind of `size`
\* and linksKind that of the three members of `_links` (undefined when `_links`
\* is missing)
MetadataObject(url, sizeKind, linksKind) ==
    [ name |-> Str("name"), path |-> Str("path"), sha |-> Str(url),
      size |-> [kind |-> sizeKind, val |-> "7"],
      url |-> Str(url), html_url |-> Str("html"), git_url |-> Str("git"),
      download_url |-> Str("raw"), type |-> Str("file"),
      content |-> Str(<<"Q", "=">>), encoding |-> Str("base64"),
      links_self |-> [kind |-> linksKind, val |-> "self"],
      links_git |-> [kind |-> linksKind, val |-> "git"],
      links_html |-> [kind |-> linksKind, val |-> "html"] ]

MetadataBodies ==
    { MetadataObject(Key1, "number", "string"),
      MetadataObject(Key2, "number", "string"),
      MetadataObject(Key1, "string", "string"),
      MetadataObject(Key2, "number", "undefined") }

\* the metadata responses: a success with a JSON object or with the JSON value
\* null as body, or a non-success (whose body is never read)
MetadataResponses ==
    [ok : {TRUE}, isNull : {FALSE}, body : MetadataBodies]
      \cup [ok : {TRUE}, isNull : {TRUE}, body : {MetadataObject(Key1, "number", "string")}]
      \cup [ok : {FALSE}, isNull : {FALSE}, body : {MetadataObject(Key1, "number", "string")}]

\* raw Markdown bodies of the content request (the empty body included)
TextBodies ==
    { <<>>,
      <<"a">>,
      <<"[", "a", "]", "(", ".", "/", "b", "#", "x", ")">> }

\* the content responses: a success with a text body, or a non-success
ContentResponses ==
    [ok : {TRUE}, body : TextBodies] \cup [ok : {FALSE}, body : {<<>>}]

\* a record left in the store by an earlier run
OldRecord(url) ==
    [MetadataObject(url, "number", "string") EXCEPT !.content = Str(<<"o", "l", "d">>)]

\* f with key k bound to v (a JavaScript Map.set, or the first assignment of a local)
Put(f, k, v) ==
    [x \in DOMAIN f \cup {k} |-> IF x = k THEN v ELSE f[x]]

EmptyStore == [k \in {} |-> OldRecord(k)]

InitialStores ==
    { EmptyStore,
      Put(EmptyStore, KeyStale, OldRecord(KeyStale)),
      Put(Put(EmptyStore, KeyStale, OldRecord(KeyStale)), Key1, OldRecord(Key1)) }

----------------------------------------------------------------------------
(* fetchDocsEntries *)

\* res.ok / metadataRes.ok
ResponseOk(response) == response.ok

\* Array.isArray(json)
IsArray(response) == response.isArray

\* lines 69-72
MapEntry(entry) == [selfUrl |-> entry.url, downloadUrl |-> entry.download_url]

\* the filter without the README.md exclusion of line 78
KeepEntry_NoReadmeCheck(entry) ==
    /\ Truthy(entry.selfUrl)
    /\ Truthy(entry.downloadUrl)
    /\ EndsWith(entry.downloadUrl.val, DotMd)

\* lines 74-78
KeepEntry(entry) ==
    /\ Truthy(entry.selfUrl)
    /\ Truthy(entry.downloadUrl)
    /\ EndsWith(entry.downloadUrl.val, DotMd)
    /\ ~Includes(entry.downloadUrl.val, ReadmeMd)

\* the kept entries in the reverse of the listing's order
FilterEntries_Reversed(items) ==
    LET kept == SelectSeq([i \in 1..Len(items) |-> MapEntry(items[i])], KeepEntry)
    IN [i \in 1..Len(kept) |-> kept[Len(kept) + 1 - i]]

\* json.map(...).filter(...)
FilterEntries(items) ==
    SelectSeq([i \in 1..Len(items) |-> MapEntry(items[i])], KeepEntry)

\* fetchDocsEntries without the checks of lines 59-66
fetchDocsEntries_NoChecks(response) ==
    [threw |-> FALSE, entries |-> FilterEntries(response.items)]

\* the outcome of fetchDocsEntries for a listing response
fetchDocsEntries(response) ==
    IF ~ResponseOk(response) THEN [threw |-> TRUE, entries |-> <<>>]
    ELSE IF ~IsArray(response) THEN [threw |-> TRUE, entries |-> <<>>]
    ELSE [threw |-> FALSE, entries |-> FilterEntries(response.items)]

----------------------------------------------------------------------------
(* parseEntry and the entries.map callback *)

\* only the metadata URL is parsed inside the try block
UrlsParse_SelfOnly(entry) == UrlParses(entry.selfUrl.val)

\* lines 88-94: both new URL(...) calls succeed
UrlsParse(entry) ==
    UrlParses(entry.selfUrl.val) /\ UrlParses(entry.downloadUrl.val)

\* the metadata response handled without the metadataRes.ok check of line 100
MetadataFails_NoOkCheck(response) == response.isNull

\* lines 100-106: the metadata response makes parseEntry throw
MetadataFails(response) == ~ResponseOk(response) \/ response.isNull

\* the content response handled without the empty-body check of line 116
ContentFails_NoEmptyCheck(response) == ~ResponseOk(response)

\* lines 112-118: the content response makes parseEntry throw
ContentFails(response) == ~ResponseOk(response) \/ response.body = <<>>

\* the fetched text merged without the link rewriter
Candidate_RawContent(meta, txt) ==
    [meta EXCEPT !.content = Str(txt)]

\* lines 122-127: { ...metadata, content: transformMarkdownLinks(text) }
Candidate(meta, txt) ==
    [meta EXCEPT !.content = Str(transformMarkdownLinks(txt))]

\* docsSchema, lines 4-21
SchemaOk(data) ==
    /\ \A f \in {"name", "path", "sha", "url", "html_url", "git_url",
                 "download_url", "type", "content", "encoding",
                 "links_self", "links_git", "links_html"} : data[f].kind = "string"
    /\ data.size.kind = "number"

Tasks == DOMAIN pc

\* the locals `metadata` and `text` of task i, and the object it hands to the parser
Metadata(i) == metadataRes[i].body
Text(i) == res[i].body
TaskCandidate(i) == Candidate(Metadata(i), Text(i))

Failed == {"failedMetadata", "failedContent", "failedValidation"}

Settled(p) == \A j \in DOMAIN p : p[j] \in {"stored", "dropped"}

\* Promise.race in place of Promise.all: the first task to finish settles load()
PromiseAll_Race(state, p) ==
    IF state # "fanout" THEN state
    ELSE IF \E j \in DOMAIN p : p[j] \in Failed THEN "rejected"
    ELSE IF p = <<>> \/ \E j \in DOMAIN p : p[j] \in {"stored", "dropped"} THEN "resolved"
    ELSE "fanout"

\* a combinator that drops rejections: a failed task leaves load() pending
PromiseAll_DropsRejections(state, p) ==
    IF state # "fanout" THEN state
    ELSE IF Settled(p) THEN "resolved"
    ELSE "fanout"

\* Promise.all: rejects with the first rejection, fulfils when every task has
PromiseAll(state, p) ==
    IF state # "fanout" THEN state
    ELSE IF \E j \in DOMAIN p : p[j] \in Failed THEN "rejected"
    ELSE IF Settled(p) THEN "resolved"
    ELSE "fanout"

\* a task moves to position to; the promise of load() follows Promise.all
Goto(i, to) ==
    /\ pc' = [pc EXCEPT ![i] = to]
    /\ loadState' = PromiseAll(loadState, pc')

\* a store.set that clears the collection before it writes
StoreSet_Clearing(st, id, data) == [k \in {id} |-> data]

\* context.store.set({ id, data })
StoreSet(st, id, data) == Put(st, id, data)

\* the record stored under the position of its entry instead of its url
StoreId_ByIndex(i, data) == ToString(i)

\* line 38: the id under which the callback of task i stores data
StoreId(i, data) == data.url.val

\* store.set called before the parser has validated the data
StoreAfterParse_WriteFirst(st, i, data) == StoreSet(st, StoreId(i, data), data)

\* lines 34-39: the store after the parser has handled the data of task i:
\* parseData throws on a schema failure and store.set is not reached
StoreAfterParse(st, i, data) ==
    IF SchemaOk(data) THEN StoreSet(st, StoreId(i, data), data) ELSE st

\* a loop that awaits each callback before it starts the next: only the
\* first entry with valid URLs has issued its request
StartTasks_OneAtATime(es) ==
    [i \in 1..Len(es) |->
        IF ~(UrlParses(es[i].selfUrl.val) /\ UrlParses(es[i].downloadUrl.val)) THEN "dropped"
        ELSE IF \E j \in 1..(i - 1) :
                   UrlParses(es[j].selfUrl.val) /\ UrlParses(es[j].downloadUrl.val)
             THEN "notStarted"
        ELSE "awaitMetadata"]

\* lines 32-33 and 88-99: entries.map calls every callback at once; each runs
\* parseEntry up to its first await (the metadata fetch) or to `return null`
StartTasks(es) ==
    [i \in 1..Len(es) |-> IF UrlsParse(es[i]) THEN "awaitMetadata" ELSE "dropped"]

----------------------------------------------------------------------------
(* The loader as a state machine *)

NoLocals == [i \in {} |-> Undefined]

InitRewriter ==
    /\ parts = <<>>
    /\ md = <<>>
    /\ out = <<>>
    /\ returned = FALSE
    /\ out2 = <<>>
    /\ returned2 = FALSE

Init ==
    /\ listing \in ListingResponses
    /\ store0 \in InitialStores
    /\ store = store0
    /\ loadState = "idle"
    /\ entries = <<>>
    /\ pc = <<>>
    /\ metadataRes = NoLocals
    /\ res = NoLocals
    /\ issued = {}
    /\ InitRewriter

\* load(context) is called: fetchDocsEntries issues the listing request
Load ==
    /\ loadState = "idle"
    /\ loadState' = "listing"
    /\ UNCHANGED <<listing, store0, store, entries, pc, metadataRes, res, issued>>
    /\ UNCHANGED rewriterVars

\* the listing response arrives (fetch and json() in one step, no task exists
\* yet to interleave): fetchDocsEntries returns or throws, and on
\* return entries.map starts every callback, which runs parseEntry up to its
\* first await (lines 88-99)
ListingResponse ==
    /\ loadState = "listing"
    /\ LET r == fetchDocsEntries(listing)
           start == StartTasks(r.entries)
       IN IF r.threw
          THEN /\ loadState' = "rejected"
               /\ UNCHANGED <<entries, pc, issued>>
          ELSE /\ entries' = r.entries
               /\ pc' = start
               /\ issued' = {<<i, "metadata">> : i \in {j \in DOMAIN start : start[j] = "awaitMetadata"}}
               /\ loadState' = PromiseAll("fanout", start)
    /\ UNCHANGED <<listing, store0, store, metadataRes, res>>
    /\ UNCHANGED rewriterVars

\* lines 99-111: the metadata response of task i arrives. The two awaits
\* (fetch, then json()) are one step: nothing shared is touched between them.
MetadataResponse(i) ==
    /\ pc[i] = "awaitMetadata"
    /\ \E response \in MetadataResponses :
          /\ metadataRes' = Put(metadataRes, i, response)
          /\ IF MetadataFails(response)
             THEN /\ Goto(i, "failedMetadata")
                  /\ UNCHANGED issued
             ELSE /\ issued' = issued \cup {<<i, "content">>}
                  /\ Goto(i, "awaitContent")
    /\ UNCHANGED <<listing, store0, store, entries, res>>
    /\ UNCHANGED rewriterVars

\* lines 111-128: the content response of task i arrives; the parser is called
ContentResponse(i) ==
    /\ pc[i] = "awaitContent"
    /\ \E response \in ContentResponses :
          /\ res' = Put(res, i, response)
          /\ IF ContentFails(response)
             THEN Goto(i, "failedContent")
             ELSE Goto(i, "awaitParser")
    /\ UNCHANGED <<listing, store0, store, entries, metadataRes, issued>>
    /\ UNCHANGED rewriterVars

\* lines 128-129 and 34-39: the parser returns the validated data or throws
ParserReturn(i) ==
    /\ pc[i] = "awaitParser"
    /\ \E data \in {TaskCandidate(i)} :
          /\ store' = StoreAfterParse(store, i, data)
          /\ IF SchemaOk(data)
             THEN Goto(i, "stored")
             ELSE Goto(i, "failedValidation")
    /\ UNCHANGED <<listing, store0, entries, metadataRes, res, issued>>
    /\ UNCHANGED rewriterVars

Next ==
    \/ Load
    \/ ListingResponse
    \/ \E i \in Tasks : MetadataResponse(i)
    \/ \E i \in Tasks : ContentResponse(i)
    \/ \E i \in Tasks : ParserReturn(i)

Spec == Init /\ [][Next]_vars

\* every await of load() and of parseEntry is resumed once what it awaits has
\* settled: a call of load() starts, each request issued receives a response
\* and each parser call returns
FairSpec ==
    /\ Init /\ [][Next]_vars
    /\ WF_vars(Load)
    /\ WF_vars(ListingResponse)
    /\ \A i \in 1..MaxListing :
          /\ WF_vars(i \in Tasks /\ MetadataResponse(i))
          /\ WF_vars(i \in Tasks /\ ContentResponse(i))
          /\ WF_vars(i \in Tasks /\ ParserReturn(i))

----------------------------------------------------------------------------
(* Properties of the load run *)

Started == loadState \notin {"idle", "listing"}

ListingFatal == ~listing.ok \/ ~listing.isArray

\* C1: a listing response that is a non-success or whose body is not an array
\* makes the run reject with no entry discovered, no metadata or content
\* request issued and the store as it was before the run.
C1_ListingErrorAborts ==
    (ListingFatal /\ Started) =>
        /\ loadState = "rejected"
        /\ entries = <<>>
        /\ pc = <<>>
        /\ issued = {}
        /\ store = store0

C1_Witness ==
    /\ listing.ok
    /\ ~listing.isArray
    /\ loadState = "rejected"

\* C2 as stated: once the run has rejected because a metadata request was
\* answered with a non-success, no task issues a request, is validated or
\* writes to the store any more.
C2_RejectionStopsOtherEntries ==
    [][ (loadState = "rejected"
           /\ \E i \in DOMAIN metadataRes : ~metadataRes[i].ok)
        => /\ issued' = issued
           /\ store' = store
           /\ \A j \in Tasks : pc[j] = "awaitParser" => pc'[j] = "awaitParser" ]_vars

\* C2 amended: a non-success metadata response makes the run reject at once
\* and ends the task of that entry: it issues no content request, is not
\* validated and is not stored. (The tasks of the other entries go on.)
C2_MetadataFailureRejectsRun ==
    \A i \in DOMAIN metadataRes :
        ~metadataRes[i].ok =>
            /\ loadState = "rejected"
            /\ pc[i] = "failedMetadata"
            /\ <<i, "content">> \notin issued
            /\ i \notin DOMAIN res

C2_Witness ==
    \E i, j \in Tasks :
        /\ i \in DOMAIN metadataRes
        /\ ~metadataRes[i].ok
        /\ loadState = "rejected"
        /\ pc[j] = "stored"

\* C3 as stated: a run that resolves has stored every discovered entry.
C3_ResolvedStoresEveryEntry ==
    loadState = "resolved" => \A i \in Tasks : pc[i] = "stored"

\* C3 amended: a run that is over has resolved or rejected, and a run that
\* resolves has stored every discovered entry whose two URLs parse (the
\* others were skipped); its record is in the store under its url.
C3_ResolvedStoresEveryValidEntry ==
    /\ loadState = "fanout" =>
          \E i \in Tasks : pc[i] \in {"awaitMetadata", "awaitContent", "awaitParser"}
    /\ loadState = "resolved" =>
          \A i \in Tasks :
             \/ /\ ~UrlsParse(entries[i])
                /\ pc[i] = "dropped"
             \/ /\ UrlsParse(entries[i])
                /\ pc[i] = "stored"
                /\ Metadata(i).url.val \in DOMAIN store

C3_Witness ==
    /\ loadState = "resolved"
    /\ \E i, j \in Tasks : pc[i] = "dropped" /\ pc[j] = "stored"

\* an entry one of whose URLs new URL() rejects
Malformed(entry) ==
    ~UrlParses(entry.selfUrl.val) \/ ~UrlParses(entry.downloadUrl.val)

\* C4: an entry whose metadata URL or download URL does not parse is skipped:
\* no request is issued for it, nothing is fetched or stored for it, and it
\* never makes the run reject; when every other entry has been stored the
\* run has resolved.
C4_MalformedEntrySkipped ==
    /\ \A i \in Tasks :
          Malformed(entries[i]) =>
             /\ pc[i] = "dropped"
             /\ \A kind \in {"metadata", "content"} : <<i, kind>> \notin issued
             /\ i \notin DOMAIN metadataRes
             /\ i \notin DOMAIN res
    /\ loadState = "rejected" /\ ~ListingFatal =>
          \E j \in Tasks : ~Malformed(entries[j]) /\ pc[j] \in Failed
    /\ (Started /\ ~ListingFatal
          /\ \A j \in Tasks : ~Malformed(entries[j]) => pc[j] = "stored")
       => loadState = "resolved"

C4_Witness ==
    \E i, j \in Tasks :
        /\ Malformed(entries[i])
        /\ UrlParses(entries[i].selfUrl.val)
        /\ pc[j] = "stored"
        /\ loadState = "resolved"

\* the responses task i has received make parseEntry a fetch error
FetchError(i) ==
    \/ i \in DOMAIN metadataRes /\ ~metadataRes[i].ok
    \/ i \in DOMAIN res /\ (~res[i].ok \/ res[i].body = <<>>)

\* C5: an entry whose metadata request or content request was answered with
\* a non-success, or whose content body is empty, makes the run reject and
\* is never validated or stored.
C5_FetchErrorAbortsRun ==
    \A i \in Tasks :
        FetchError(i) =>
            /\ loadState = "rejected"
            /\ pc[i] \in {"failedMetadata", "failedContent"}

C5_Witness ==
    \E i \in DOMAIN res :
        /\ res[i].ok
        /\ res[i].body = <<>>
        /\ loadState = "rejected"

\* C6: when the parser rejects the candidate of an entry, the run rejects,
\* the store is exactly as it was before the parser returned (no write for
\* the candidate, no record of another entry removed or changed), and the
\* task stays failed.
C6_ValidationFailureKeepsStore ==
    [][ \A i \in Tasks :
          (pc[i] = "awaitParser" /\ pc'[i] # "awaitParser"
             /\ ~SchemaOk(TaskCandidate(i)))
          => /\ pc'[i] = "failedValidation"
             /\ loadState' = "rejected"
             /\ store' = store ]_vars

C6_Witness ==
    \E i, j \in Tasks :
        /\ pc[i] = "failedValidation"
        /\ pc[j] = "stored"
        /\ Metadata(j).url.val \in DOMAIN store

\* C7: every record of the store is under the key equal to its url, so the
\* store holds at most one record per url; a write replaces the record at
\* that key and touches no other key; two stored entries with the same
\* metadata url leave one record for that url.
C7_StoreKeyedByUrl ==
    /\ \A k \in DOMAIN store : store[k].url.val = k
    /\ \A u \in {Key1, Key2, KeyStale} :
          Cardinality({k \in DOMAIN store : store[k].url.val = u}) <= 1
    /\ \A i \in Tasks :
          pc[i] = "stored" =>
             Cardinality({k \in DOMAIN store : store[k].url.val = Metadata(i).url.val}) = 1

C7_WriteOverwrites ==
    \A i \in Tasks :
        (pc[i] = "awaitParser" /\ pc'[i] = "stored") =>
            /\ DOMAIN store' = DOMAIN store \cup {TaskCandidate(i).url.val}
            /\ \A k \in DOMAIN store' :
                  store'[k] = IF k = TaskCandidate(i).url.val
                              THEN TaskCandidate(i)
                              ELSE store[k]

C7_OneRecordPerUrl == []C7_StoreKeyedByUrl /\ [][C7_WriteOverwrites]_vars

C7_Witness ==
    /\ Len(entries) = 2
    /\ pc[1] = "stored"
    /\ pc[2] = "stored"
    /\ Metadata(1).url.val = Metadata(2).url.val
    /\ Text(1) # Text(2)

\* C8: the run deletes nothing: every record that was in the store before
\* the run is still there, and unchanged unless a task of the run has
\* written a record under its key.
C8_NoDeletion ==
    \A k \in DOMAIN store0 :
        /\ k \in DOMAIN store
        /\ store[k] # store0[k] =>
              \E i \in Tasks : pc[i] = "stored" /\ Metadata(i).url.val = k

C8_Witness ==
    /\ KeyStale \in DOMAIN store0
    /\ Key1 \in DOMAIN store0
    /\ store[Key1] # store0[Key1]
    /\ loadState \in {"resolved", "rejected"}

\* "present", "ends in .md" and "contains README.md" of the filtering rule
Present(v) == v.kind = "string" /\ Len(v.val) > 0
EndsInMd(s) ==
    /\ Len(s) >= 3
    /\ s[Len(s) - 2] = "."
    /\ s[Len(s) - 1] = "m"
    /\ s[Len(s)] = "d"
ContainsReadme(s) ==
    \E a \in 0..Len(s) :
        /\ a + 9 <= Len(s)
        /\ [n \in 1..9 |-> s[a + n]] = ReadmeMd

\* C9: discovery keeps a descriptor of the listing if and only if both its
\* metadata URL and its download URL are present, its download URL ends in
\* .md and its download URL does not contain README.md.
C9_FilterRule ==
    (Started /\ ~ListingFatal) =>
        \A n \in 1..Len(listing.items) :
            LET d == listing.items[n]
            IN (\E i \in 1..Len(entries) :
                    entries[i] = [selfUrl |-> d.url, downloadUrl |-> d.download_url])
               <=> /\ Present(d.url)
                   /\ Present(d.download_url)
                   /\ EndsInMd(d.download_url.val)
                   /\ ~ContainsReadme(d.download_url.val)

C9_Witness ==
    /\ Started
    /\ Len(listing.items) = 2
    /\ Len(entries) = 1
    /\ ContainsReadme(listing.items[1].download_url.val)
    /\ EndsInMd(listing.items[1].download_url.val)
    /\ Present(listing.items[1].url)

\* the fixed field set of a record, `content` apart
OtherFields ==
    {"name", "path", "sha", "size", "url", "html_url", "git_url", "download_url",
     "type", "encoding", "links_self", "links_git", "links_html"}

\* a record of the shape the schema demands
WellFormed(r) ==
    /\ \A f \in (OtherFields \ {"size"}) \cup {"content"} : r[f].kind = "string"
    /\ r.size.kind = "number"

C16_StoredRecordsWellFormed ==
    \A k \in DOMAIN store : WellFormed(store[k])

C16_WriteStep ==
    /\ store' # store => \E i \in Tasks : pc[i] = "awaitParser" /\ pc'[i] = "stored"
    /\ \A i \in Tasks :
          (pc[i] = "awaitParser" /\ pc'[i] = "stored") =>
             LET r == store'[metadataRes[i].body.url.val]
             IN /\ WellFormed(r)
                /\ r.content = Str(transformMarkdownLinks(res[i].body))
                /\ \A f \in OtherFields : r[f] = metadataRes[i].body[f]

\* C16: every record written to the store has passed schema validation, its
\* content is the link rewriter applied to the text fetched from the entry's
\* download URL, and each other field is that of the entry's metadata response.
C16_WrittenRecord == []C16_StoredRecordsWellFormed /\ [][C16_WriteStep]_vars

C16_Witness ==
    \E i \in Tasks :
        /\ pc[i] = "stored"
        /\ Metadata(i).url.val \in DOMAIN store
        /\ store[Metadata(i).url.val].content.val = transformMarkdownLinks(Text(i))
        /\ store[Metadata(i).url.val].content.val # Text(i)

\* C17: once discovery has returned, the metadata request of every entry
\* with valid URLs has been issued (all of them are outstanding at once, no
\* cap), and a task that awaits a response can take its next step whatever
\* the other tasks are doing, so the store writes of distinct entries can
\* come in any order.
C17_NoEntryWaits ==
    (Started /\ ~ListingFatal) =>
        \A i \in Tasks :
            /\ ~Malformed(entries[i]) => <<i, "metadata">> \in issued
            /\ pc[i] \in {"dropped", "awaitMetadata", "awaitContent", "awaitParser", "stored"}
                           \cup Failed
            /\ pc[i] = "awaitMetadata" => ENABLED MetadataResponse(i)
            /\ pc[i] = "awaitContent" => ENABLED ContentResponse(i)

C17_Witness ==
    /\ Len(entries) = MaxListing
    /\ \A i \in Tasks : pc[i] = "awaitMetadata"
    /\ issued = {<<i, "metadata">> : i \in Tasks}

\* a later entry of the listing has written while the first one still awaits
\* its metadata, and the other way round
C17_LaterEntryWritesFirst ==
    /\ Len(entries) = 2
    /\ pc[1] = "awaitMetadata"
    /\ pc[2] = "stored"

C17_FirstEntryWritesFirst ==
    /\ Len(entries) = 2
    /\ pc[1] = "stored"
    /\ pc[2] = "awaitMetadata"

\* the descriptor passes the filtering rule
PassesFilter(d) ==
    /\ Present(d.url)
    /\ Present(d.download_url)
    /\ EndsInMd(d.download_url.val)
    /\ ~ContainsReadme(d.download_url.val)

\* C18: the entries produced by discovery are the descriptors of the listing
\* that pass the filter, in the listing's order, none duplicated or added.
C18_ListingOrderKept ==
    (Started /\ ~ListingFatal) =>
        LET kept == {n \in 1..Len(listing.items) : PassesFilter(listing.items[n])}
            nth(i) == CHOOSE n \in kept : Cardinality({m \in kept : m <= n}) = i
        IN /\ Len(entries) = Cardinality(kept)
           /\ \A i \in 1..Len(entries) :
                 entries[i] = [selfUrl |-> listing.items[nth(i)].url,
                               downloadUrl |-> listing.items[nth(i)].download_url]

C18_Witness ==
    /\ Started
    /\ Len(entries) = 2
    /\ entries[1] # entries[2]
    /\ entries[1].selfUrl = listing.items[1].url
    /\ entries[2].downloadUrl = listing.items[2].download_url

Pending == {"awaitMetadata", "awaitContent", "awaitParser"}

C19_ResolvedNothingPending ==
    loadState = "resolved" => \A i \in Tasks : pc[i] \notin Pending

\* C19: when every request issued receives a response and every validation
\* call returns, a started run of load() ends, resolved or rejected; and when
\* it has resolved, no entry task is still pending.
C19_RunTerminates ==
    /\ (loadState = "listing") ~> (loadState \in {"resolved", "rejected"})
    /\ []C19_ResolvedNothingPending

C19_Witness ==
    /\ loadState = "resolved"
    /\ Len(entries) = 2
    /\ \A i \in Tasks : pc[i] = "stored"

----------------------------------------------------------------------------
(* Calls of transformMarkdownLinks on documents written from Markdown constructs *)

LinkTexts == { <<"I">>, <<"[", "a">> }

RelativeUrls ==
    { DotSlash \o <<"i", "#", "s">>,
      DotDotSlash \o <<"i">>,
      DotSlash \o DotDotSlash \o <<"x">>,
      DotDotSlash \o DotDotSlash \o <<"x">>,
      DotSlash \o <<"x", "#", "b", "#", "c">>,
      DotSlash \o <<"x", "#">>,
      DotDotSlash \o <<"#", "a">> }

OtherUrls ==
    { <<"h", ":", "x">>, <<"#", "a">>, DocsPrefix \o <<"x">>, <<"x", "/", "y">> }

TextPart(t) == [kind |-> "text", text |-> t, url |-> <<>>]
LinkPart(t, u) == [kind |-> "link", text |-> t, url |-> u]
ImagePart(t, u) == [kind |-> "image", text |-> t, url |-> u]
RefDefPart(t, u) == [kind |-> "refdef", text |-> t, url |-> u]

Parts ==
    {TextPart(<<"a">>), TextPart(<<"#", " ">>),
     TextPart(<<"[">>), TextPart(<<"]">>), TextPart(<<"(">>), TextPart(<<")">>)}
      \cup {LinkPart(t, u) : t \in LinkTexts, u \in RelativeUrls \cup OtherUrls}
      \cup {ImagePart(<<"I">>, u) : u \in {DotSlash \o <<"i">>, DotDotSlash \o <<"i">>, <<"h", ":", "x">>}}
      \cup {RefDefPart(<<"r">>, u) : u \in {DotSlash \o <<"i">>, <<"h", ":", "x">>}}

\* the inline link [text](url)
InlineLink(t, u) == <<"[">> \o t \o <<"]", "(">> \o u \o <<")">>

\* the Markdown source of one construct
Render(part) ==
    CASE part.kind = "text" -> part.text
      [] part.kind = "link" -> InlineLink(part.text, part.url)
      [] part.kind = "image" -> <<"!">> \o InlineLink(part.text, part.url)
      [] part.kind = "refdef" -> <<"[">> \o part.text \o <<"]", ":", " ">> \o part.url \o <<"\n">>

RECURSIVE RenderAll(_)
RenderAll(ps) ==
    IF ps = <<>> THEN <<>> ELSE Render(Head(ps)) \o RenderAll(Tail(ps))

InitLoaderIdle ==
    /\ listing = [ok |-> FALSE, isArray |-> FALSE, items |-> <<>>]
    /\ store0 = EmptyStore
    /\ store = EmptyStore
    /\ loadState = "idle"
    /\ entries = <<>>
    /\ pc = <<>>
    /\ metadataRes = NoLocals
    /\ res = NoLocals
    /\ issued = {}

LinkInit ==
    /\ InitLoaderIdle
    /\ parts \in SeqsUpTo(Parts, MaxPieces)
    /\ md = RenderAll(parts)
    /\ out = <<>>
    /\ returned = FALSE
    /\ out2 = <<>>
    /\ returned2 = FALSE

\* transformMarkdownLinks(md) is called and returns
Rewrite ==
    /\ ~returned
    /\ out' = transformMarkdownLinks(md)
    /\ returned' = TRUE
    /\ UNCHANGED <<parts, md, out2, returned2>>
    /\ UNCHANGED loaderVars

\* transformMarkdownLinks is called on the string the first call returned
RewriteAgain ==
    /\ returned
    /\ ~returned2
    /\ out2' = transformMarkdownLinks(out)
    /\ returned2' = TRUE
    /\ UNCHANGED <<parts, md, out, returned>>
    /\ UNCHANGED loaderVars

LinkNext ==
    \/ Rewrite
    \/ RewriteAgain

LinkSpec == LinkInit /\ [][LinkNext]_vars

----------------------------------------------------------------------------
(* Properties of the link rewriter *)

\* position of the first '#' of a url, 0 when it has none
FirstHash(u) ==
    IF \E i \in 1..Len(u) : u[i] = "#"
    THEN CHOOSE i \in 1..Len(u) : u[i] = "#" /\ \A j \in 1..(i - 1) : u[j] # "#"
    ELSE 0

\* the path of a url: what precedes its first '#'
PathPart(u) == IF FirstHash(u) = 0 THEN u ELSE SubSeq(u, 1, FirstHash(u) - 1)

\* the fragment of a url: what follows its first '#'
FragmentPart(u) ==
    IF FirstHash(u) = 0 THEN <<>> ELSE SubSeq(u, FirstHash(u) + 1, Len(u))

StripLeading(p, prefix) ==
    IF Len(p) >= Len(prefix) /\ \A n \in 1..Len(prefix) : p[n] = prefix[n]
    THEN [n \in 1..(Len(p) - Len(prefix)) |-> p[n + Len(prefix)]]
    ELSE p

\* /docs/<cleaned-path>, plus #<fragment> when the url has a fragment
RebuiltUrl(u) ==
    DocsPrefix \o StripLeading(StripLeading(PathPart(u), DotSlash), DotDotSlash)
       \o (IF FragmentPart(u) = <<>> THEN <<>> ELSE <<"#">> \o FragmentPart(u))

BeginsRelative(u) ==
    \/ Len(u) >= 2 /\ u[1] = "." /\ u[2] = "/"
    \/ Len(u) >= 3 /\ u[1] = "." /\ u[2] = "." /\ u[3] = "/"

\* the returned text, given that the n-th construct of the document is to
\* come out as `replacement` and the text around it as the rewriter leaves it
OutputWith(n, replacement) ==
    transformMarkdownLinks(RenderAll(SubSeq(parts, 1, n - 1)))
       \o replacement
       \o transformMarkdownLinks(RenderAll(SubSeq(parts, n + 1, Len(parts))))

\* C10: every inline link [text](url) whose url starts with ./ or ../ comes
\* out as [text](/docs/<cleaned-path>) with #<fragment> appended when the url
\* has a fragment, the link text unchanged.
C10_RelativeLinkRewritten ==
    returned =>
        \A n \in 1..Len(parts) :
            (parts[n].kind = "link" /\ BeginsRelative(parts[n].url)) =>
                out = OutputWith(n, InlineLink(parts[n].text, RebuiltUrl(parts[n].url)))

\* the same for the links whose url has at most one '#'
C10_SingleHash ==
    returned =>
        \A n \in 1..Len(parts) :
            (parts[n].kind = "link" /\ BeginsRelative(parts[n].url)
               /\ FirstHash(FragmentPart(parts[n].url)) = 0) =>
                out = OutputWith(n, InlineLink(parts[n].text, RebuiltUrl(parts[n].url)))

\* C11: an image ![alt](url), a reference-style link definition and plain
\* text come out of the rewriter as they went in.
C11_NonLinksUnchanged ==
    returned =>
        \A n \in 1..Len(parts) :
            parts[n].kind \in {"image", "refdef", "text"} =>
                out = OutputWith(n, Render(parts[n]))

\* the same for reference-style definitions, plain text and the images whose
\* url does not start with ./ or ../
C11_ExceptRelativeImages ==
    returned =>
        \A n \in 1..Len(parts) :
            (parts[n].kind \in {"refdef", "text"}
               \/ (parts[n].kind = "image" /\ ~BeginsRelative(parts[n].url))) =>
                out = OutputWith(n, Render(parts[n]))

\* C12: an inline link whose url does not start with ./ or ../ (an absolute
\* url, an anchor, a url that already starts with /docs/) comes out unchanged.
C12_OtherLinksUnchanged ==
    returned =>
        \A n \in 1..Len(parts) :
            (parts[n].kind = "link" /\ ~BeginsRelative(parts[n].url)) =>
                out = OutputWith(n, Render(parts[n]))

C12_Witness ==
    /\ returned
    /\ Len(parts) = 2
    /\ parts[1] = LinkPart(<<"I">>, DocsPrefix \o <<"x">>)
    /\ parts[2].kind = "link"
    /\ BeginsRelative(parts[2].url)
    /\ out # md

\* a url with a scheme, or one that already starts with /docs/
AbsoluteOrRewritten(u) ==
    \/ Len(u) >= 2 /\ u[1] = "h" /\ u[2] = ":"
    \/ Len(u) >= 6 /\ [n \in 1..6 |-> u[n]] = <<"/", "d", "o", "c", "s", "/">>

\* C13: on an input whose inline links are all absolute or already
\* rewritten, rewriting the rewriter's output gives that output again.
C13_TwiceIsOnceOnRewritten ==
    (returned2 /\ \A n \in 1..Len(parts) :
                     parts[n].kind \in {"link", "image"} => AbsoluteOrRewritten(parts[n].url))
    => out2 = out

C13_Witness ==
    /\ returned2
    /\ Len(parts) = 2
    /\ parts[1] = LinkPart(<<"I">>, DocsPrefix \o <<"x">>)
    /\ parts[2] = LinkPart(<<"I">>, <<"h", ":", "x">>)
    /\ out2 = md

\* what may follow the cleaned path in a rebuilt url: nothing, or '#' and a
\* leading part of the url's fragment
FragmentTails(u) ==
    {<<>>} \cup {<<"#">> \o SubSeq(FragmentPart(u), 1, k) : k \in 0..Len(FragmentPart(u))}

\* the n-th construct is a relative link and comes out with its path rebuilt
\* as /docs/<cleaned>
RebuiltWithPath(n, cleaned) ==
    \E tail \in FragmentTails(parts[n].url) :
        out = OutputWith(n, InlineLink(parts[n].text, DocsPrefix \o cleaned \o tail))

\* the path with './' stripped if it starts with './', and only otherwise
\* with '../' stripped
StripEither(p) ==
    IF BeginsRelative(p) /\ p[2] = "/" THEN StripLeading(p, DotSlash)
    ELSE StripLeading(p, DotDotSlash)

\* C14 as stated: exactly one prefix is removed per link, './' if the path
\* starts with it and only otherwise '../' (so ./../x gives /docs/../x).
C14_OnePrefixStripped ==
    returned =>
        \A n \in 1..Len(parts) :
            (parts[n].kind = "link" /\ BeginsRelative(parts[n].url)) =>
                RebuiltWithPath(n, StripEither(PathPart(parts[n].url)))

\* C14 amended: a leading './' is stripped, and then a leading '../' of what
\* remains is stripped as well; no more than one of each (so ./../x gives
\* /docs/x and ../../x gives /docs/../x).
C14_BothPrefixesStripped ==
    returned =>
        \A n \in 1..Len(parts) :
            (parts[n].kind = "link" /\ BeginsRelative(parts[n].url)) =>
                RebuiltWithPath(n, StripLeading(StripLeading(PathPart(parts[n].url), DotSlash),
                                                DotDotSlash))

C14_Witness ==
    /\ returned
    /\ parts = <<LinkPart(<<"I">>, DotSlash \o DotDotSlash \o <<"x">>),
                 LinkPart(<<"I">>, DotDotSlash \o DotDotSlash \o <<"x">>)>>
    /\ out = InlineLink(<<"I">>, DocsPrefix \o <<"x">>)
               \o InlineLink(<<"I">>, DocsPrefix \o DotDotSlash \o <<"x">>)

\* C15: a relative url with a '#' is split on its first '#' only: the path is
\* what precedes it, the fragment all that follows it (later '#' included),
\* and the url is rebuilt as /docs/<cleaned-path>#<fragment>. Stated for the
\* urls with a non-empty fragment.
C15_SplitOnFirstHash ==
    returned =>
        \A n \in 1..Len(parts) :
            (parts[n].kind = "link" /\ BeginsRelative(parts[n].url)
               /\ FragmentPart(parts[n].url) # <<>>) =>
                out = OutputWith(n,
                        InlineLink(parts[n].text,
                                   DocsPrefix
                                     \o StripLeading(StripLeading(PathPart(parts[n].url), DotSlash),
                                                     DotDotSlash)
                                     \o <<"#">> \o FragmentPart(parts[n].url)))

\* the same for the urls with exactly one '#', followed by a non-empty fragment
C15_OneHash ==
    returned =>
        \A n \in 1..Len(parts) :
            (parts[n].kind = "link" /\ BeginsRelative(parts[n].url)
               /\ FragmentPart(parts[n].url) # <<>>
               /\ FirstHash(FragmentPart(parts[n].url)) = 0) =>
                out = OutputWith(n,
                        InlineLink(parts[n].text,
                                   DocsPrefix
                                     \o StripLeading(StripLeading(PathPart(parts[n].url), DotSlash),
                                                     DotDotSlash)
                                     \o <<"#">> \o FragmentPart(parts[n].url)))

\* the positions where the global scan of linkRegex finds its matches in s
RECURSIVE MatchStarts(_, _)
MatchStarts(s, from) ==
    LET i == NextMatch(s, from)
    IN IF i = 0 THEN {} ELSE {i} \cup MatchStarts(s, MatchAt(s, i).last + 1)

UrlOfMatch(s, i) == SubSeq(s, MatchAt(s, i).close + 2, MatchAt(s, i).last - 1)

\* C20: the rewriter is idempotent on every input: no inline link of its
\* output has a url starting with ./ or ../, and rewriting the output
\* returns the output unchanged.
C20_Idempotent ==
    /\ returned =>
          \A i \in MatchStarts(out, 1) : ~BeginsRelative(UrlOfMatch(out, i))
    /\ returned2 => out2 = out

C20_Witness ==
    /\ returned2
    /\ Len(parts) = 2
    /\ parts[1] = LinkPart(<<"[", "a">>, DotDotSlash \o DotDotSlash \o <<"x">>)
    /\ parts[2] = ImagePart(<<"I">>, DotSlash \o <<"i">>)
    /\ out # md
    /\ out2 = out

====
